---- MODULE Spec2Model ----
(***************************************************************************)
(* Scheduling agent: the free/busy sweep, the event matcher and the three  *)
(* scheduling actions of api_modified_new.py, and the common-slot sweep of *)
(* langchain_scheduler.py, over a two-user calendar store.                 *)
(*                                                                         *)
(* Instants are seconds since 1970-01-01 00:00 UTC.  A calendar is the     *)
(* sequence of a user's timed events in the order the gateway lists them   *)
(* (orderBy='startTime').  Text is a sequence of one-character strings.    *)
(***************************************************************************)
EXTENDS Integers, Sequences, FiniteSets, TLC

VARIABLES
    now,        \* the clock reading the handlers take (datetime.now)
    cal,        \* cal[u]: the events of user u's primary calendar, by start
    pc,         \* "idle", "called" (a tool call is pending) or "done"
    req,        \* the query handed to the tool (NoQuery when there is none)
    faults,     \* the gateway calls that failed during the last invocation
    op,         \* the handler that ran last ("none" when none has)
    busy,       \* the busy list the last sweep scanned, after busy.sort()
    free,       \* the free slots the last sweep emitted
    win,        \* <<window start, window end>> of the last sweep
    events,     \* the candidate list the last cancel/reschedule scanned
    target,     \* the id of the event it chose (NoEvent when none)
    writes,     \* the write calls the last invocation issued, in order
    result      \* what the handler returned (or that it raised)

vars == <<now, cal, pc, req, faults, op, busy, free, win, events, target, writes, result>>

-----------------------------------------------------------------------------
(* Program constants *)

\* (s - pointer).total_seconds() >= 3600
MIN_FREE_SECONDS == 3600
\* find_common_free_slot(user_ids, duration_minutes=60, days_ahead=7)
DURATION_MINUTES == 60
\* end = now + timedelta(days=7)
DAYS_AHEAD == 7
\* maxResults=10 in get_multi_user_events
MAX_RESULTS == 10

SecondsPerHour == 60 * 60
SecondsPerDay == 24 * SecondsPerHour
HalfHour == SecondsPerHour \div 2

\* for uid in ["user1", "user2"]
Users == <<"user1", "user2">>
UserSet == {Users[i] : i \in 1..Len(Users)}

\* target_event = None
NoEvent == 0

\* result = {"summary": "Meeting", ...}
DEFAULT_SUMMARY == <<"M", "e", "e", "t", "i", "n", "g">>

-----------------------------------------------------------------------------
(* Bounds of the model *)

\* events held by the two calendars together in an initial state of SpecSweep
MaxEvents == 2

\* events held by the two calendars together in any state of Spec
MaxBooked == 2

-----------------------------------------------------------------------------
(* Helpers *)

Max(a, b) == IF a >= b THEN a ELSE b

RECURSIVE Concat(_)
Concat(ss) == IF ss = <<>> THEN <<>> ELSE Head(ss) \o Concat(Tail(ss))

Range(s) == {s[i] : i \in 1..Len(s)}

SetMax(S) == CHOOSE x \in S : \A y \in S : y <= x

SetMin(S) == CHOOSE x \in S : \A y \in S : x <= y

-----------------------------------------------------------------------------
(* Calendar Gateway: events().list(timeMin, timeMax, orderBy='startTime')  *)
(* returns, in start order, the events that end after timeMin and start    *)
(* before timeMax.                                                         *)

InWindow(e, timeMin, timeMax) == e.end > timeMin /\ e.start < timeMax

List(u, timeMin, timeMax) ==
    SelectSeq(cal[u], LAMBDA e : InWindow(e, timeMin, timeMax))

\* events().list(timeMin=now, maxResults=10): no upper end, at most 10 items
ListUpcoming(u) ==
    LET items == SelectSeq(cal[u], LAMBDA e : e.end > now)
    IN  IF Len(items) > MAX_RESULTS THEN SubSeq(items, 1, MAX_RESULTS) ELSE items

\* for e in user_events: e['user_id'] = uid
Tagged(u, items) == [i \in 1..Len(items) |-> [user |-> u, ev |-> items[i]]]

-----------------------------------------------------------------------------
(* Free/Busy Engine *)

\* busy.append((start, end_)) for each listed event of each user whose
\* list call did not fail
BusyOf(items) == [i \in 1..Len(items) |-> <<items[i].start, items[i].end>>]

CollectBusy(failed, timeMin, timeMax) ==
    Concat([i \in 1..Len(Users) |->
              IF Users[i] \in failed THEN <<>>
              ELSE BusyOf(List(Users[i], timeMin, timeMax))])

\* tuple comparison of busy.sort(): by start, then by end
TupleLeq(a, b) == a[1] < b[1] \/ (a[1] = b[1] /\ a[2] <= b[2])

RECURSIVE InsertSorted(_, _)
InsertSorted(x, s) ==
    IF s = <<>> THEN <<x>>
    ELSE IF TupleLeq(x, Head(s)) THEN <<x>> \o s
    ELSE <<Head(s)>> \o InsertSorted(x, Tail(s))

RECURSIVE SortedInsertAll(_, _)
SortedInsertAll(s, acc) ==
    IF s = <<>> THEN acc ELSE SortedInsertAll(Tail(s), InsertSorted(Head(s), acc))

\* busy.sort()
SortBusy(s) == SortedInsertAll(s, <<>>)

GapAlways(gap, min_duration) == gap > 0

GapStrict(gap, min_duration) == gap > min_duration

\* if (s - pointer).total_seconds() >= 3600
Qualifies(gap, min_duration) == gap >= min_duration

AdvanceToEnd(pointer, e) == e

AdvanceToEarlier(pointer, e) == IF e <= pointer THEN e ELSE pointer

\* pointer = max(pointer, e)
Advance(pointer, e) == Max(pointer, e)

\* the values of the pointer: before the loop, and after each interval
RECURSIVE Pointers(_, _)
Pointers(bs, pointer) ==
    IF bs = <<>> THEN <<pointer>>
    ELSE <<pointer>> \o Pointers(Tail(bs), Advance(pointer, Head(bs)[2]))

\* the loop "for s, e in busy": the pointer and the slots after the whole list
RECURSIVE SweepLoop(_, _, _, _)
SweepLoop(bs, pointer, slots, min_duration) ==
    IF bs = <<>> THEN <<pointer, slots>>
    ELSE LET s == Head(bs)[1]
             e == Head(bs)[2]
             emitted == IF Qualifies(s - pointer, min_duration)
                        THEN Append(slots, <<pointer, s>>)
                        ELSE slots
         IN  SweepLoop(Tail(bs), Advance(pointer, e), emitted, min_duration)

\* the sweep and the trailing slot up to the window end
FreeSlots(bs, window_start, window_end, min_duration) ==
    LET swept == SweepLoop(bs, window_start, <<>>, min_duration)
        pointer == swept[1]
        slots == swept[2]
    IN  IF Qualifies(window_end - pointer, min_duration)
        THEN Append(slots, <<pointer, window_end>>)
        ELSE slots

WindowEnd(t) == t + DAYS_AHEAD * SecondsPerDay

NoSlot == <<>>

\* what a handler hands back: the kind of message, and the slot or the event
\* the message names
Outcome(kind, slot, id) == [kind |-> kind, slot |-> slot, id |-> id]

NoFaults == [list |-> {}, write |-> FALSE, service |-> FALSE]

ListFaults(failed) == [NoFaults EXCEPT !.list = failed]

-----------------------------------------------------------------------------
(* find_conflict_free_slot: a failed list call is caught per user *)

find_conflict_free_slot(failed) ==
    LET end == WindowEnd(now)
        sorted == SortBusy(CollectBusy(failed, now, end))
        slots == FreeSlots(sorted, now, end, MIN_FREE_SECONDS)
    IN  /\ op' = "find_conflict_free_slot"
        /\ faults' = ListFaults(failed)
        /\ busy' = sorted
        /\ free' = slots
        /\ win' = <<now, end>>
        /\ result' = IF slots # <<>> THEN Outcome("suggested", slots[1], NoEvent)
                     ELSE Outcome("no_free_slot", NoSlot, NoEvent)
        /\ events' = <<>>
        /\ target' = NoEvent
        /\ writes' = <<>>
        /\ UNCHANGED <<now, cal, pc, req>>

FindConflictFreeSlot == \E failed \in SUBSET UserSet : find_conflict_free_slot(failed)

(* find_common_free_slot: the list call is not guarded, so a failure of    *)
(* either user's call propagates to the caller                             *)

find_common_free_slot(failed) ==
    LET day_end == WindowEnd(now)
        sorted == SortBusy(CollectBusy({}, now, day_end))
        slots == FreeSlots(sorted, now, day_end, DURATION_MINUTES * 60)
        raised == failed # {}
    IN  /\ op' = "find_common_free_slot"
        /\ faults' = ListFaults(failed)
        /\ busy' = IF raised THEN <<>> ELSE sorted
        /\ free' = IF raised THEN <<>> ELSE slots
        /\ win' = <<now, day_end>>
        /\ result' = IF raised THEN Outcome("raised", NoSlot, NoEvent)
                     ELSE IF slots # <<>> THEN Outcome("suggested", slots[1], NoEvent)
                     ELSE Outcome("no_common_slot", NoSlot, NoEvent)
        /\ events' = <<>>
        /\ target' = NoEvent
        /\ writes' = <<>>
        /\ UNCHANGED <<now, cal, pc, req>>

FindCommonFreeSlot == \E failed \in SUBSET UserSet : find_common_free_slot(failed)

(* get_multi_user_events: one line per upcoming event of each user whose   *)
(* list call did not fail                                                  *)

get_multi_user_events(failed) ==
    /\ op' = "get_multi_user_events"
    /\ faults' = ListFaults(failed)
    /\ events' = Concat([i \in 1..Len(Users) |->
                           IF Users[i] \in failed THEN <<>>
                           ELSE Tagged(Users[i], ListUpcoming(Users[i]))])
    /\ result' = Outcome("listed", NoSlot, NoEvent)
    /\ busy' = <<>>
    /\ free' = <<>>
    /\ win' = <<now, now>>
    /\ target' = NoEvent
    /\ writes' = <<>>
    /\ UNCHANGED <<now, cal, pc, req>>

GetMultiUserEvents == \E failed \in SUBSET UserSet : get_multi_user_events(failed)

-----------------------------------------------------------------------------
(* The query handed to a tool, as the handlers read it *)

\* time_str / old_time_str: None, or text that names a date, a time of day,
\* both, or neither (dateutil then raises ValueError)
NoTime == [given |-> FALSE, hasDate |-> FALSE, day |-> 0, hasHour |-> FALSE, hour |-> 0]

NoQuery ==
    [tool |-> "none", eventId |-> NoEvent, summary |-> <<>>, time |-> NoTime,
     old_time |-> NoTime, attendees |-> <<>>, matched |-> FALSE, first |-> FALSE,
     days |-> {}, text |-> <<>>, pattern |-> 0]

WHENEVER_FREE ==
    <<"w", "h", "e", "n", "e", "v", "e", "r", " ", "I", "'", "m", " ", "f", "r", "e", "e">>

-----------------------------------------------------------------------------
(* Text: str.lower(), the "in" test on strings *)

Uppers == <<"A", "B", "C", "D", "E", "F", "G", "H", "I", "J", "K", "L", "M",
            "N", "O", "P", "Q", "R", "S", "T", "U", "V", "W", "X", "Y", "Z">>

Lowers == <<"a", "b", "c", "d", "e", "f", "g", "h", "i", "j", "k", "l", "m",
            "n", "o", "p", "q", "r", "s", "t", "u", "v", "w", "x", "y", "z">>

LowerChar(c) ==
    IF \E i \in 1..Len(Uppers) : Uppers[i] = c
    THEN Lowers[CHOOSE i \in 1..Len(Uppers) : Uppers[i] = c]
    ELSE c

Lower(s) == [i \in 1..Len(s) |-> LowerChar(s[i])]

IsSubstring(p, s) ==
    \E i \in 0..(Len(s) - Len(p)) : SubSeq(s, i + 1, i + Len(p)) = p

-----------------------------------------------------------------------------
(* Time: calendar day, time of day, weekday (Monday is 0), dateutil parse *)

DayOf(t) == t \div SecondsPerDay

TimeOfDay(t) == t % SecondsPerDay

Midnight(t) == DayOf(t) * SecondsPerDay

\* datetime.weekday(); 1970-01-01 was a Thursday
Weekday(t) == (DayOf(t) + 3) % 7

\* parser.parse raises ValueError on text that names neither a date nor a time
Parsable(text) == text.hasDate \/ text.hasHour

\* parser.parse(text, default=d, fuzzy=True): the fields the text names
\* replace those of the default
ParseTime(text, d) ==
    (IF text.hasDate THEN text.day ELSE DayOf(d)) * SecondsPerDay
        + (IF text.hasHour THEN text.hour * SecondsPerHour ELSE TimeOfDay(d))

-----------------------------------------------------------------------------
(* parse_user_query, from the groups of the pattern that matched: the      *)
(* defaults, the update with the groups, the "first" flag and the default  *)
(* summary.  req.attendees is the list the attendee text resolved to.      *)

ParseResult(q) ==
    [summary   |-> IF q.summary = <<>> THEN DEFAULT_SUMMARY ELSE q.summary,
     time      |-> q.time,
     old_time  |-> q.old_time,
     attendees |-> q.attendees,
     is_first  |-> q.matched /\ q.first]

\* raw = result.get("attendees", ""): the default of line 80 is a list, and it
\* stays when no pattern matched or when the pattern that matched has no
\* attendees group (the last one); re.findall then raises TypeError
ParseRaises(q) == ~q.matched \/ q.pattern = 5

\* the names the module binds by its imports
ImportedNames ==
    {"os", "json", "logging", "datetime", "timedelta", "load_dotenv",
     "InstalledAppFlow", "build", "Request", "Credentials", "ChatOpenAI",
     "StateGraph", "END", "create_react_agent", "ToolNode", "tool", "parser",
     "tz", "TypedDict", "List", "Optional", "Tuple", "AIMessage",
     "HumanMessage", "ToolMessage", "BaseMessage", "FastAPI", "HTTPException",
     "CORSMiddleware", "BaseModel", "re"}

\* evaluating a name that is not bound raises NameError
NameDefined(n) == n \in ImportedNames

-----------------------------------------------------------------------------
(* Calendar Gateway: get, and the three write calls *)

AllEvents == UNION {Range(cal[u]) : u \in UserSet}

UsedIds == {e.id : e \in AllEvents}

TotalEvents == Len(cal[Users[1]]) + Len(cal[Users[2]])

\* the identifier the gateway gives an inserted event
FreshId == SetMin({i \in 1..(TotalEvents + 1) : i \notin UsedIds})

\* events().get(eventId=id) fails when the calendar holds no such event
Holds(u, id) == \E i \in 1..Len(cal[u]) : cal[u][i].id = id

Get(u, id) == cal[u][CHOOSE i \in 1..Len(cal[u]) : cal[u][i].id = id]

\* a write call as the handler issues it; ok tells whether the gateway
\* carried it out
Write(call, u, id, body, ok) ==
    [call |-> call, user |-> u, id |-> id, body |-> body, ok |-> ok]

Without(s, id) == SelectSeq(s, LAMBDA e : e.id # id)

RECURSIVE InsertByStart(_, _)
InsertByStart(ev, s) ==
    IF s = <<>> THEN <<ev>>
    ELSE IF ev.start < Head(s).start THEN <<ev>> \o s
    ELSE <<Head(s)>> \o InsertByStart(ev, Tail(s))

ApplyWrite(c, w) ==
    IF ~w.ok THEN c
    ELSE IF w.call = "insert" THEN [c EXCEPT ![w.user] = InsertByStart(w.body, @)]
    ELSE IF w.call = "update"
         THEN [c EXCEPT ![w.user] = InsertByStart(w.body, Without(@, w.id))]
    ELSE [c EXCEPT ![w.user] = Without(@, w.id)]

RECURSIVE ApplyAll(_, _)
ApplyAll(c, ws) == IF ws = <<>> THEN c ELSE ApplyAll(ApplyWrite(c, Head(ws)), Tail(ws))

\* what one invocation did: the message, the event it names, the write
\* calls, the candidates scanned, the target, the list calls that failed
BaseEffect ==
    [kind |-> "none", id |-> NoEvent, writes |-> <<>>, events |-> <<>>,
     target |-> NoEvent, list |-> {}, busy |-> <<>>, free |-> <<>>, win |-> <<0, 0>>,
     service |-> FALSE]

Failure(kind) == [BaseEffect EXCEPT !.kind = kind]

\* an exception that leaves the statements of a tool's outer try block
Raised == Failure("raised")

\* get_user_service(uid) raised
ServiceRaised == [Raised EXCEPT !.service = TRUE]

Propagate(eff) == eff

\* except Exception as e: return f"Failed to ... event: {str(e)}"
OuterExcept(eff) ==
    IF eff.kind = "raised" THEN [eff EXCEPT !.kind = "unexpected_error"] ELSE eff

\* the candidates of both users, in the order the handlers collect them
Candidates(failed, timeMin, timeMax) ==
    Concat([i \in 1..Len(Users) |->
              IF Users[i] \in failed THEN <<>>
              ELSE Tagged(Users[i], List(Users[i], timeMin, timeMax))])

\* [a.get('email','').lower() for a in ev.get('attendees',[])]
EventEmails(ev) == {Lower(a) : a \in ev.attendees}

\* all(a['email'].lower() in event_attendees for a in attendees)
IncludesAll(ev, attendees) ==
    \A i \in 1..Len(attendees) : Lower(attendees[i]) \in EventEmails(ev)

\* the position at which a loop over the candidates breaks, given the
\* positions that pass its test; 0 when it runs to the end
FirstIndex(hits) == IF hits = {} THEN 0 ELSE SetMin(hits)

-----------------------------------------------------------------------------
(* parse_user_query on the text of a query.  The five patterns separate    *)
(* their literals and groups by \s+ and the groups are .+? or .+, so on a   *)
(* text of words separated by single blanks every group is a run of whole  *)
(* words; the operators below work on the list of words.                   *)

\* the words the patterns and the split spell out
Literal ==
    [create |-> <<"c", "r", "e", "a", "t", "e">>,
     schedule |-> <<"s", "c", "h", "e", "d", "u", "l", "e">>,
     a |-> <<"a">>,
     meeting |-> <<"m", "e", "e", "t", "i", "n", "g">>,
     with |-> <<"w", "i", "t", "h">>,
     at |-> <<"a", "t">>,
     to |-> <<"t", "o">>,
     reschedule |-> <<"r", "e", "s", "c", "h", "e", "d", "u", "l", "e">>,
     the |-> <<"t", "h", "e">>,
     first |-> <<"f", "i", "r", "s", "t">>,
     cancel |-> <<"c", "a", "n", "c", "e", "l">>,
     and |-> <<"a", "n", "d">>]

\* the text of a list of words
RECURSIVE Join(_)
Join(ws) ==
    IF ws = <<>> THEN <<>>
    ELSE IF Len(ws) = 1 THEN ws[1]
    ELSE ws[1] \o <<" ">> \o Join(Tail(ws))

\* the words of a text: the runs between blanks
RECURSIVE SplitWords(_, _, _)
SplitWords(text, word, acc) ==
    IF text = <<>> THEN (IF word = <<>> THEN acc ELSE Append(acc, word))
    ELSE IF Head(text) = " "
         THEN SplitWords(Tail(text), <<>>, IF word = <<>> THEN acc ELSE Append(acc, word))
    ELSE SplitWords(Tail(text), Append(word, Head(text)), acc)

Words(text) == SplitWords(text, <<>>, <<>>)

\* re.IGNORECASE: the literals are compared with the lowered words
RECURSIVE LowerWords(_)
LowerWords(w) == IF w = <<>> THEN <<>> ELSE <<Lower(Head(w))>> \o LowerWords(Tail(w))

\* the first position in lo..hi that holds the word, 0 when none does
Find(lw, word, lo, hi) == FirstIndex({k \in lo..hi : lw[k] = word})

\* match.groupdict(): a group that took no part is None
None == <<>>

NoMatch == [ok |-> FALSE, attendees |-> None, old_time |-> None, time |-> None,
            summary |-> None]

Groups(attendees, old_time, time, summary) ==
    [ok |-> TRUE, attendees |-> Join(attendees), old_time |-> Join(old_time),
     time |-> Join(time), summary |-> Join(summary)]

\* (?:create|schedule)\s+a?\s+meeting\s+(?:with\s+)?(?P<attendees>.+?)
\* (?:\s+at\s+(?P<time>.+?))(?:\s+(?P<summary>.+))?$
\* attendees is lazy: it ends before the first "at" that leaves it a word and
\* has a word after it; time is lazy before an optional group: one word
Pattern1(w) ==
    LET lw == LowerWords(w)
        n == Len(w)
        head == /\ n >= 3
                /\ lw[1] \in {Literal.create, Literal.schedule}
                /\ lw[2] = Literal.a
                /\ lw[3] = Literal.meeting
        kWith == IF n >= 4 /\ lw[4] = Literal.with THEN Find(lw, Literal.at, 6, n - 1) ELSE 0
        s == IF kWith # 0 THEN 5 ELSE 4
        k == IF kWith # 0 THEN kWith ELSE Find(lw, Literal.at, 5, n - 1)
    IN  IF ~head \/ k = 0 THEN NoMatch
        ELSE Groups(SubSeq(w, s, k - 1), <<>>, <<w[k + 1]>>, SubSeq(w, k + 2, n))

\* the position of "meeting" after reschedule|cancel, (?:a\s+)? and, when
\* allowed, (?:first\s+)?; 0 when the head does not match
MeetingAt(lw, verb, first) ==
    LET n == Len(lw)
        i == IF n >= 2 /\ lw[2] = Literal.a THEN 3 ELSE 2
        j == IF first /\ n >= i /\ lw[i] = Literal.first THEN i + 1 ELSE i
    IN  IF n >= j /\ lw[1] = verb /\ lw[j] = Literal.meeting THEN j ELSE 0

\* the groups of the second pattern when attendees starts at word s: it is
\* lazy, one word; the optional old_time group is tried before it is skipped
Pattern2From(w, lw, s) ==
    LET n == Len(w)
        j2 == Find(lw, Literal.to, s + 2, n - 1)
        j1 == IF s + 1 <= n - 1 /\ lw[s + 1] = Literal.to THEN s + 1 ELSE 0
        j == IF j2 # 0 THEN j2 ELSE j1
    IN  IF s > n \/ j = 0 THEN NoMatch
        ELSE Groups(<<w[s]>>, IF j2 # 0 THEN SubSeq(w, s + 1, j2 - 1) ELSE <<>>,
                    <<w[j + 1]>>, SubSeq(w, j + 2, n))

\* reschedule\s+(?:a\s+)?(?:first\s+)?meeting\s+(?:with\s+)?(?P<attendees>.+?)
\* (?:\s+(?P<old_time>.+?))?\s+to\s+(?P<time>.+?)(?:\s+(?P<summary>.+))?$
Pattern2(w) ==
    LET lw == LowerWords(w)
        n == Len(w)
        m == MeetingAt(lw, Literal.reschedule, TRUE)
        skipped == IF m # 0 /\ n >= m + 1 /\ lw[m + 1] = Literal.with
                   THEN Pattern2From(w, lw, m + 2)
                   ELSE NoMatch
    IN  IF m = 0 THEN NoMatch
        ELSE IF skipped.ok THEN skipped
        ELSE Pattern2From(w, lw, m + 1)

\* cancel\s+(?:a\s+)?meeting\s+(?:with\s+)?(?P<attendees>.+?)(?:\s+(?P<summary>.+))?$
Pattern3(w) ==
    LET lw == LowerWords(w)
        n == Len(w)
        m == MeetingAt(lw, Literal.cancel, FALSE)
        s == IF m # 0 /\ n >= m + 2 /\ lw[m + 1] = Literal.with THEN m + 2 ELSE m + 1
    IN  IF m = 0 \/ s > n THEN NoMatch
        ELSE Groups(<<w[s]>>, <<>>, <<>>, SubSeq(w, s + 1, n))

\* (?P<summary>.+?)\s+with\s+(?P<attendees>.+?)\s+at\s+(?P<time>.+)
Pattern4(w) ==
    LET lw == LowerWords(w)
        n == Len(w)
        i == FirstIndex({x \in 2..n : lw[x] = Literal.with /\ Find(lw, Literal.at, x + 2, n - 1) # 0})
        k == Find(lw, Literal.at, i + 2, n - 1)
    IN  IF i = 0 THEN NoMatch
        ELSE Groups(SubSeq(w, i + 1, k - 1), <<>>, SubSeq(w, k + 1, n),
                    SubSeq(w, 1, i - 1))

\* reschedule\s+the\s+first\s+meeting\s+(?P<old_time>.+?)\s+to\s+(?P<time>.+?)
\* (?:\s+(?P<summary>.+))?$
Pattern5(w) ==
    LET lw == LowerWords(w)
        n == Len(w)
        head == /\ n >= 4
                /\ SubSeq(lw, 1, 4) = <<Literal.reschedule, Literal.the, Literal.first, Literal.meeting>>
        j == Find(lw, Literal.to, 6, n - 1)
    IN  IF ~head \/ j = 0 THEN NoMatch
        ELSE Groups(<<>>, SubSeq(w, 5, j - 1), <<w[j + 1]>>, SubSeq(w, j + 2, n))

\* the patterns in the order of the list
Patterns(w) == <<Pattern1(w), Pattern2(w), Pattern3(w), Pattern4(w), Pattern5(w)>>

\* the index of the pattern the loop breaks at, 0 when it runs to its else
MatchedPattern(w) ==
    IF Pattern1(w).ok THEN 1
    ELSE IF Pattern2(w).ok THEN 2
    ELSE IF Pattern3(w).ok THEN 3
    ELSE IF Pattern4(w).ok THEN 4
    ELSE IF Pattern5(w).ok THEN 5
    ELSE 0

\* [a-zA-Z0-9._%+-]+@[a-zA-Z0-9.-]+\.[a-zA-Z]{2,} on a whole word
Letters == {Lowers[i] : i \in 1..Len(Lowers)} \cup {Uppers[i] : i \in 1..Len(Uppers)}

Digits == {"0", "1", "2", "3", "4", "5", "6", "7", "8", "9"}

IsEmail(word) ==
    \E at \in 2..Len(word) : \E dot \in (at + 2)..(Len(word) - 2) :
        /\ word[at] = "@"
        /\ word[dot] = "."
        /\ \A i \in 1..(at - 1) : word[i] \in Letters \cup Digits \cup {".", "_", "%", "+", "-"}
        /\ \A i \in (at + 1)..(dot - 1) : word[i] \in Letters \cup Digits \cup {".", "-"}
        /\ \A i \in (dot + 1)..Len(word) : word[i] \in Letters

\* the entries of the table for the names the queries of the model can hold
email_mapping ==
    (<<"a", "k", "a", "s", "h">> :> <<"a", "k", "a", "s", "h", "m", "e", "h", "t", "a", "5", "5", "6", "@", "g", "m", "a", "i", "l", ".", "c", "o", "m">>)
        @@ (<<"e", "l", "i", "a", "n", "a">> :> <<"e", "l", "i", "a", "n", "a", "@", "g", "o", "c", "a", "d", "r", "e", ".", "a", "i">>)

\* re.split on the word "and": the runs of words between its occurrences
RECURSIVE SplitAnd(_, _, _)
SplitAnd(ws, part, acc) ==
    IF ws = <<>> THEN Append(acc, part)
    ELSE IF Lower(Head(ws)) = Literal.and THEN SplitAnd(Tail(ws), <<>>, Append(acc, part))
    ELSE SplitAnd(Tail(ws), Append(part, Head(ws)), acc)

\* name.strip().lower() of every part, the empty ones skipped, the ones the
\* table knows mapped and the others dropped
RECURSIVE MapNames(_)
MapNames(parts) ==
    IF parts = <<>> THEN <<>>
    ELSE LET key == Lower(Join(Head(parts)))
         IN  (IF key \in DOMAIN email_mapping THEN <<email_mapping[key]>> ELSE <<>>)
                 \o MapNames(Tail(parts))

\* a resolution that keeps the addresses and the known names alike
ResolveBoth(raw) ==
    SelectSeq(Words(raw), IsEmail) \o MapNames(SplitAnd(Words(raw), <<>>, <<>>))

\* the attendees of the raw attendee text: the addresses in it when it holds
\* any, else the names in it that the table knows
ResolveAttendees(raw) ==
    LET ws == Words(raw)
        found_emails == SelectSeq(ws, IsEmail)
    IN  IF found_emails # <<>> THEN found_emails
        ELSE MapNames(SplitAnd(ws, <<>>, <<>>))

\* the dictionary before any pattern matched
Defaults ==
    [summary |-> DEFAULT_SUMMARY, time |-> None, old_time |-> None,
     attendees |-> <<>>, is_first |-> FALSE]

\* re.findall on the list that "attendees" defaults to raises TypeError: the
\* loop found no pattern, or the one it found has no attendees group
QueryRaises(text) == MatchedPattern(Words(text)) \in {0, 5}

\* the dictionary parse_user_query returns when it returns
parse_user_query(text) ==
    LET w == Words(text)
        g == Patterns(w)[MatchedPattern(w)]
    IN  [summary   |-> IF g.summary = None THEN DEFAULT_SUMMARY ELSE g.summary,
         time      |-> g.time,
         old_time  |-> g.old_time,
         attendees |-> ResolveAttendees(g.attendees),
         is_first  |-> IsSubstring(Literal.first, Lower(text))]

-----------------------------------------------------------------------------
(* create_meeting *)

\* days_ahead = (i - current_weekday + 7) % 7; if days_ahead == 0: days_ahead = 7
DaysAhead(i, current_weekday) ==
    LET d == (i - current_weekday + 7) % 7 IN IF d = 0 THEN 7 ELSE d

\* start.replace(second=0, microsecond=0)
DropSeconds(t) == t - (t % 60)

\* for i, day in enumerate(day_names): if day in query_lower and
\* start.weekday() != i: move start to that weekday
RECURSIVE AdjustWeekday(_, _, _)
AdjustWeekday(start, i, days) ==
    IF i > 6 THEN start
    ELSE IF i \in days /\ Weekday(start) # i
         THEN AdjustWeekday(
                  DropSeconds(start + DaysAhead(i, Weekday(start)) * SecondsPerDay),
                  i + 1, days)
    ELSE AdjustWeekday(start, i + 1, days)

\* service = get_user_service("user1"); service.events().insert(...)
InsertCalls(body, ok) == <<Write("insert", Users[1], body.id, body, ok)>>

\* start = parser.parse(time_str, fuzzy=True)
ParsedStart(q) == ParseTime(ParseResult(q).time, Midnight(now))

\* start after the loop over day_names
CorrectedStart(q) == AdjustWeekday(ParsedStart(q), 0, q.days)

\* the statements inside the outer try of create_meeting
CreateTry(q, failWrite, failService) ==
    LET parsed == ParseResult(q)
        start == CorrectedStart(q)
        body == [id |-> FreshId, summary |-> parsed.summary, start |-> start,
                 end |-> start + SecondsPerHour,
                 attendees |-> Range(parsed.attendees)]
    IN  IF ParseRaises(q) THEN Raised
        ELSE IF ~parsed.time.given THEN Failure("no_time")
        ELSE IF parsed.attendees = <<>> THEN Failure("no_attendees")
        ELSE IF ~Parsable(parsed.time) THEN Failure("bad_time")
        ELSE IF failService THEN ServiceRaised
        ELSE [BaseEffect EXCEPT
                !.kind = IF failWrite THEN "insert_failed" ELSE "created",
                !.id = IF failWrite THEN NoEvent ELSE body.id,
                !.writes = InsertCalls(body, ~failWrite)]

CreateEffect(q, failWrite, failService) ==
    OuterExcept(CreateTry(q, failWrite, failService))

-----------------------------------------------------------------------------
(* cancel_meeting *)

\* svc.events().delete(calendarId='primary', eventId=...)
DeleteCalls(u, evt, ok) == <<Write("delete", u, evt.id, evt, ok)>>

CancelUnfetched(q, failWrite) ==
    [BaseEffect EXCEPT
        !.kind = IF failWrite THEN "cancel_by_id_failed" ELSE "canceled",
        !.id = q.eventId,
        !.writes = <<Write("delete", Users[1], q.eventId, NoEvent, ~failWrite)>>]

\* the branch "cancel event <id>": get, then delete, on user1's calendar
CancelById(q, failWrite) ==
    IF ~Holds(Users[1], q.eventId) THEN Failure("cancel_by_id_failed")
    ELSE [BaseEffect EXCEPT
            !.kind = IF failWrite THEN "cancel_by_id_failed" ELSE "canceled",
            !.id = q.eventId,
            !.writes = DeleteCalls(Users[1], Get(Users[1], q.eventId), ~failWrite)]

\* m_day: the weekday the query names after "on", if it names one
DayFilter(q) == q.days

\* the loop that looks for the first event matching all criteria; the
\* queries of the model carry no "at <time>" clause, so time_filter is None
CancelMatches(ev, attendees, day_filter) ==
    /\ IncludesAll(ev, attendees)
    /\ day_filter # {} => Weekday(ev.start) \in day_filter

CancelTarget(evs, attendees, day_filter) ==
    FirstIndex({i \in 1..Len(evs) : CancelMatches(evs[i].ev, attendees, day_filter)})

\* the branch that matches by attendees, from "now = datetime.now(pytz.UTC)"
CancelByAttendees(q, attendees, failed, failWrite, failService) ==
    IF ~NameDefined("pytz") THEN Raised
    ELSE IF failService THEN ServiceRaised
    ELSE LET evs == Candidates(failed, now, WindowEnd(now))
             k == CancelTarget(evs, attendees, DayFilter(q))
         IN  IF k = 0
             THEN [BaseEffect EXCEPT !.kind = "no_match", !.events = evs,
                                     !.list = failed]
             ELSE [BaseEffect EXCEPT
                     !.kind = IF failWrite THEN "raised" ELSE "canceled",
                     !.id = evs[k].ev.id,
                     !.events = evs,
                     !.target = evs[k].ev.id,
                     !.list = failed,
                     !.writes = DeleteCalls(evs[k].user, evs[k].ev, ~failWrite)]

\* the statements inside the outer try of cancel_meeting
CancelTry(q, failed, failWrite, failService) ==
    IF q.eventId # NoEvent
    THEN IF failService THEN ServiceRaised ELSE CancelById(q, failWrite)
    ELSE IF ParseRaises(q) THEN Raised
    ELSE LET attendees == ParseResult(q).attendees
         IN  IF attendees = <<>> THEN Failure("no_attendees_or_id")
             ELSE CancelByAttendees(q, attendees, failed, failWrite, failService)

CancelEffect(q, failed, failWrite, failService) ==
    OuterExcept(CancelTry(q, failed, failWrite, failService))

-----------------------------------------------------------------------------
(* reschedule_meeting *)

\* "whenever I'm free" in query.lower()
AsksWheneverFree(q) == IsSubstring(WHENEVER_FREE, Lower(q.text))

\* event['start'] = new_start; event['end'] = new_start + timedelta(hours=1)
Moved(ev, new_start) ==
    [ev EXCEPT !.start = new_start, !.end = new_start + SecondsPerHour]

UpdateOnBoth(u, body, ok) ==
    <<Write("update", Users[1], body.id, body, ok),
      Write("update", Users[2], body.id, body, ok)>>

\* service.events().update(calendarId='primary', eventId=event_id, body=...)
UpdateCalls(u, body, ok) == <<Write("update", u, body.id, body, ok)>>

\* the branch "ID: <id>": get, then update, on user1's calendar
RescheduleById(q, new_start, failWrite) ==
    IF ~Holds(Users[1], q.eventId) THEN Failure("reschedule_failed")
    ELSE [BaseEffect EXCEPT
            !.kind = IF failWrite THEN "reschedule_failed" ELSE "rescheduled",
            !.id = q.eventId,
            !.writes = UpdateCalls(Users[1],
                                   Moved(Get(Users[1], q.eventId), new_start),
                                   ~failWrite)]

\* summary = parsed.get("summary", None); "summary is None"
NoSummary == <<>>

\* the attendee rule and the summary rule of the matching loop
PrimaryMatch(ev, attendees, summary) ==
    /\ IncludesAll(ev, attendees)
    /\ summary = NoSummary \/ Lower(ev.summary) = Lower(summary)

\* an attendee's address occurs in the event's summary
FallbackMatch(ev, attendees) ==
    \E i \in 1..Len(attendees) : IsSubstring(Lower(attendees[i]), Lower(ev.summary))

\* the loop "for event in events" of the branch without the first flag: an
\* event that fails the first test is tried against the second at once
AttendeeTarget(evs, attendees, summary) ==
    FirstIndex({i \in 1..Len(evs) : \/ PrimaryMatch(evs[i].ev, attendees, summary)
                                     \/ FallbackMatch(evs[i].ev, attendees)})

\* the loop of the "first meeting" branch: event_start.date() == old_start.date()
FirstTarget(evs, old_start) ==
    FirstIndex({i \in 1..Len(evs) : DayOf(evs[i].ev.start) = DayOf(old_start)})

\* from "time_min = now.isoformat()" to the update of the target
RescheduleByMatch(parsed, new_start, failed, failWrite, failService) ==
    LET old == parsed.old_time
        oldOk == old.given /\ Parsable(old)
        old_start == ParseTime(old, now)
        time_min == IF oldOk THEN Midnight(old_start) ELSE now
        time_max == IF oldOk THEN Midnight(old_start) + SecondsPerDay
                    ELSE WindowEnd(now)
        evs == Candidates(failed, time_min, time_max)
        k == IF parsed.is_first THEN FirstTarget(evs, old_start)
             ELSE AttendeeTarget(evs, parsed.attendees, parsed.summary)
        seen == [BaseEffect EXCEPT !.events = evs, !.list = failed]
    IN  IF failService THEN ServiceRaised
        ELSE IF parsed.is_first /\ old.given /\ ~Parsable(old)
        THEN [seen EXCEPT !.kind = "bad_old_time"]
        ELSE IF parsed.is_first /\ ~old.given
        THEN [seen EXCEPT !.kind = "first_needs_date"]
        ELSE IF k = 0 THEN [seen EXCEPT !.kind = "no_match"]
        ELSE [seen EXCEPT
                !.kind = IF failWrite THEN "reschedule_failed" ELSE "rescheduled",
                !.id = evs[k].ev.id,
                !.target = evs[k].ev.id,
                !.writes = UpdateCalls(evs[k].user, Moved(evs[k].ev, new_start),
                                       ~failWrite)]

\* the statements inside the outer try of reschedule_meeting
RescheduleTry(q, failed, failWrite, failService) ==
    LET parsed == ParseResult(q)
        wants == ~parsed.time.given /\ AsksWheneverFree(q)
        end == WindowEnd(now)
        sorted == SortBusy(CollectBusy(failed, now, end))
        slots == FreeSlots(sorted, now, end, MIN_FREE_SECONDS)
        new_start == IF wants THEN slots[1][1]
                     ELSE ParseTime(parsed.time, now + SecondsPerDay)
        swept(eff) == IF wants
                      THEN [eff EXCEPT !.busy = sorted, !.free = slots,
                                       !.win = <<now, end>>, !.list = failed]
                      ELSE eff
    IN  IF ParseRaises(q) THEN Raised
        ELSE IF ~parsed.time.given /\ ~wants THEN Failure("no_new_time")
        ELSE IF wants /\ failService THEN ServiceRaised
        ELSE IF wants /\ slots = <<>> THEN swept(Failure("no_free_slots"))
        ELSE IF ~wants /\ ~Parsable(parsed.time) THEN Failure("bad_new_time")
        ELSE IF q.eventId # NoEvent
        THEN IF failService THEN ServiceRaised
             ELSE swept(RescheduleById(q, new_start, failWrite))
        ELSE swept(RescheduleByMatch(parsed, new_start, failed, failWrite,
                                     failService))

RescheduleEffect(q, failed, failWrite, failService) ==
    OuterExcept(RescheduleTry(q, failed, failWrite, failService))

-----------------------------------------------------------------------------
(* The request cycle: process_query hands the query to a tool, the tool    *)
(* runs, and its output is returned before the next query is accepted.     *)

Finish(name, eff) ==
    /\ pc' = "done"
    /\ op' = name
    /\ result' = Outcome(eff.kind, NoSlot, eff.id)
    /\ writes' = eff.writes
    /\ events' = eff.events
    /\ target' = eff.target
    /\ faults' = [list |-> eff.list,
                  write |-> \E i \in 1..Len(eff.writes) : ~eff.writes[i].ok,
                  service |-> eff.service]
    /\ busy' = eff.busy
    /\ free' = eff.free
    /\ win' = eff.win
    /\ cal' = ApplyAll(cal, eff.writes)
    /\ UNCHANGED <<now, req>>

\* the model books at most MaxBooked events
Room(eff) == eff.kind = "created" => TotalEvents < MaxBooked

\* the gateway faults of one invocation: the users whose list call fails,
\* whether the write call fails,
\* whether get_user_service fails; an invocation meets one kind of fault
FaultCases ==
    {[NoFaults EXCEPT !.list = f] : f \in SUBSET UserSet}
        \cup {[NoFaults EXCEPT !.write = TRUE], [NoFaults EXCEPT !.service = TRUE]}

create_meeting ==
    /\ pc = "called"
    /\ req.tool = "create_meeting"
    /\ \E f \in FaultCases :
          LET eff == CreateEffect(req, f.write, f.service)
          IN  Room(eff) /\ Finish("create_meeting", eff)

cancel_meeting ==
    /\ pc = "called"
    /\ req.tool = "cancel_meeting"
    /\ \E f \in FaultCases :
          Finish("cancel_meeting", CancelEffect(req, f.list, f.write, f.service))

reschedule_meeting ==
    /\ pc = "called"
    /\ req.tool = "reschedule_meeting"
    /\ \E f \in FaultCases :
          Finish("reschedule_meeting",
                 RescheduleEffect(req, f.list, f.write, f.service))

process_query(q) ==
    /\ pc = "idle"
    /\ pc' = "called"
    /\ req' = q
    /\ UNCHANGED <<now, cal, faults, op, busy, free, win, events, target, writes, result>>

ReturnOutput ==
    /\ pc = "done"
    /\ pc' = "idle"
    /\ req' = NoQuery
    /\ faults' = NoFaults
    /\ op' = "none"
    /\ busy' = <<>>
    /\ free' = <<>>
    /\ win' = <<0, 0>>
    /\ events' = <<>>
    /\ target' = NoEvent
    /\ writes' = <<>>
    /\ result' = Outcome("none", NoSlot, NoEvent)
    /\ UNCHANGED <<now, cal>>

-----------------------------------------------------------------------------
(* The queries and the initial calendars of Spec *)

ADDR_A == <<"a", "@", "x">>
ADDR_B == <<"b", "@", "x">>
\* the same address as the user typed it
ADDR_B_TYPED == <<"B", "@", "x">>

CALL_A == <<"c", "a", "l", "l", " ", "a", "@", "x">>
CALL_A_TYPED == <<"C", "a", "l", "l", " ", "a", "@", "x">>

At(day, hour) == day * SecondsPerDay + hour * SecondsPerHour

HourOnly(h) ==
    [given |-> TRUE, hasDate |-> FALSE, day |-> 0, hasHour |-> TRUE, hour |-> h]

DateOnly(d) ==
    [given |-> TRUE, hasDate |-> TRUE, day |-> d, hasHour |-> FALSE, hour |-> 0]

Unparsable ==
    [given |-> TRUE, hasDate |-> FALSE, day |-> 0, hasHour |-> FALSE, hour |-> 0]

AttendeeLists == {<<>>, <<ADDR_A>>, <<ADDR_B_TYPED>>}

SummaryTexts == {<<>>, CALL_A_TYPED}

NewTimes == {NoTime, Unparsable, HourOnly(10)}

OldTimes == {NoTime, Unparsable, DateOnly(1)}

\* the identifiers a query can name: those the calendars can hold and one more
IdChoices == 1..(MaxBooked + 1)

\* the pattern that matches the phrasing of each tool's request
PatternOf == [create_meeting |-> 1, reschedule_meeting |-> 2, cancel_meeting |-> 3]

Matched(tool) ==
    [NoQuery EXCEPT !.tool = tool, !.matched = TRUE, !.pattern = PatternOf[tool]]

CreateQueries ==
    {[Matched("create_meeting") EXCEPT
        !.summary = s, !.time = HourOnly(10), !.attendees = a] :
            s \in SummaryTexts, a \in AttendeeLists}
        \cup {[Matched("create_meeting") EXCEPT
                 !.time = HourOnly(10), !.attendees = <<ADDR_A>>, !.days = {5}]}
        \cup {[Matched("create_meeting") EXCEPT !.time = t, !.attendees = a] :
                t \in NewTimes \ {HourOnly(10)}, a \in {<<>>, <<ADDR_A>>}}
        \cup {[NoQuery EXCEPT !.tool = "create_meeting"]}

CancelQueries ==
    {[Matched("cancel_meeting") EXCEPT !.eventId = i] : i \in IdChoices}
        \cup {[Matched("cancel_meeting") EXCEPT !.eventId = 1, !.attendees = <<ADDR_A>>]}
        \cup {[Matched("cancel_meeting") EXCEPT !.attendees = a] : a \in AttendeeLists}

RescheduleQueries ==
    {[Matched("reschedule_meeting") EXCEPT !.eventId = i, !.time = HourOnly(10)] :
        i \in IdChoices}
        \cup {[Matched("reschedule_meeting") EXCEPT !.eventId = 1, !.time = Unparsable]}
        \cup {[Matched("reschedule_meeting") EXCEPT !.time = t, !.attendees = <<ADDR_A>>] :
                t \in NewTimes \ {HourOnly(10)}}
        \cup {[Matched("reschedule_meeting") EXCEPT
                 !.time = HourOnly(10), !.summary = s, !.old_time = o,
                 !.attendees = a] :
                    s \in SummaryTexts, o \in {NoTime, DateOnly(1)},
                    a \in AttendeeLists}
        \cup {[Matched("reschedule_meeting") EXCEPT
                 !.time = HourOnly(10), !.old_time = o, !.first = TRUE] :
                    o \in OldTimes}
        \cup {[Matched("reschedule_meeting") EXCEPT
                 !.time = HourOnly(10), !.old_time = DateOnly(1), !.first = TRUE,
                 !.pattern = 5]}
        \cup {[NoQuery EXCEPT !.tool = "reschedule_meeting", !.text = x] :
                x \in {<<>>, WHENEVER_FREE}}
        \cup {[Matched("reschedule_meeting") EXCEPT
                 !.pattern = 3, !.attendees = <<ADDR_A>>, !.summary = WHENEVER_FREE,
                 !.text = WHENEVER_FREE]}

Queries == CreateQueries \cup CancelQueries \cup RescheduleQueries

ProcessQuery == \E q \in Queries : process_query(q)

SYNC == <<"s", "y", "n", "c">>

\* what the booked events are called and who attends them
BookedKinds ==
    {<<CALL_A, {ADDR_B}>>, <<DEFAULT_SUMMARY, {ADDR_A, ADDR_B}>>,
     <<SYNC, {ADDR_A, ADDR_B}>>}

BookedTemplates ==
    {[summary |-> k[1], start |-> At(1, h), end |-> At(1, h + 1), attendees |-> k[2]] :
        k \in BookedKinds, h \in {9, 10}}

-----------------------------------------------------------------------------
(* Initial calendars of the sweep specification: timed events around the   *)
(* two ends of the look-ahead window, in start order per user.             *)

SweepInstants ==
    {k * HalfHour : k \in -1..2}
        \cup {WindowEnd(0) + k * HalfHour : k \in -2..1}

Interval(s, e) ==
    [summary |-> DEFAULT_SUMMARY, start |-> s, end |-> e, attendees |-> {}]

SweepTemplates ==
    {Interval(p[1], p[2]) : p \in {q \in SweepInstants \X SweepInstants : q[1] < q[2]}}

ByStart(s) == \A i \in 1..(Len(s) - 1) : s[i].start <= s[i + 1].start

\* the calendars of exactly n events drawn from the templates
Calendars(templates, n) == {s \in [1..n -> templates] : ByStart(s)}

WithIds(s, base) ==
    [i \in 1..Len(s) |-> [id |-> base + i] @@ s[i]]

InitCommon ==
    /\ now = 0
    /\ pc = "idle"
    /\ req = NoQuery
    /\ faults = NoFaults
    /\ op = "none"
    /\ busy = <<>>
    /\ free = <<>>
    /\ win = <<0, 0>>
    /\ events = <<>>
    /\ target = NoEvent
    /\ writes = <<>>
    /\ result = Outcome("none", NoSlot, NoEvent)

InitSweep ==
    /\ InitCommon
    /\ \E n1 \in 0..MaxEvents : \E n2 \in 0..(MaxEvents - n1) :
       \E c1 \in Calendars(SweepTemplates, n1), c2 \in Calendars(SweepTemplates, n2) :
          cal = [u \in UserSet |-> IF u = Users[1] THEN WithIds(c1, 0)
                                   ELSE WithIds(c2, Len(c1))]

NextSweep ==
    \/ FindConflictFreeSlot
    \/ FindCommonFreeSlot
    \/ GetMultiUserEvents

SpecSweep == InitSweep /\ [][NextSweep]_vars

Init ==
    /\ InitCommon
    /\ \E n1 \in 0..MaxBooked : \E n2 \in 0..(MaxBooked - n1) :
       \E c1 \in Calendars(BookedTemplates, n1), c2 \in Calendars(BookedTemplates, n2) :
          cal = [u \in UserSet |-> IF u = Users[1] THEN WithIds(c1, 0)
                                   ELSE WithIds(c2, Len(c1))]

Next ==
    \/ ProcessQuery
    \/ create_meeting
    \/ cancel_meeting
    \/ reschedule_meeting
    \/ ReturnOutput

Spec == Init /\ [][Next]_vars

-----------------------------------------------------------------------------
(* parse_user_query on its own: the texts are a phrase a user opens with   *)
(* and up to MaxTail further words                                         *)

MaxTail == 3

\* words of the queries that the patterns do not spell out
Word ==
    [pm5 |-> <<"5", "p", "m">>,
     tomorrow |-> <<"t", "o", "m", "o", "r", "r", "o", "w">>,
     akash |-> <<"A", "k", "a", "s", "h">>,
     address |-> <<"e", "@", "x", ".", "i", "o">>,
     firstly |-> <<"f", "i", "r", "s", "t", "l", "y">>,
     sync |-> <<"s", "y", "n", "c">>,
     schedule |-> <<"S", "c", "h", "e", "d", "u", "l", "e">>]

TailWords == {Literal.at, Literal.to, Literal.and, Word.pm5, Word.tomorrow, Word.akash, Word.address}

Tails == UNION {[1..n -> TailWords] : n \in 0..MaxTail}

Heads ==
    {<<>>,
     <<Literal.create, Literal.a, Literal.meeting>>,
     <<Literal.create, Literal.a, Literal.meeting, Literal.with>>,
     <<Literal.create, Literal.a, Literal.meeting, Literal.with, Word.address>>,
     <<Word.schedule, Literal.a, Literal.meeting, Literal.with, Word.akash, Literal.and>>,
     <<Literal.create, Literal.meeting, Literal.with>>,
     <<Literal.reschedule, Literal.meeting, Literal.with>>,
     <<Literal.reschedule, Literal.first, Literal.meeting, Literal.with>>,
     <<Literal.reschedule, Literal.the, Literal.first, Literal.meeting>>,
     <<Literal.reschedule, Literal.the, Literal.first, Literal.meeting, Literal.with>>,
     <<Literal.cancel, Literal.meeting, Literal.with>>,
     <<Literal.cancel, Literal.a, Literal.meeting>>,
     <<Word.sync, Literal.with>>,
     <<Word.firstly, Literal.with>>}

InitParse ==
    /\ now = 0
    /\ pc = "idle"
    /\ \E h \in Heads, t \in Tails : req = [NoQuery EXCEPT !.text = Join(h \o t)]
    /\ faults = NoFaults
    /\ op = "none"
    /\ busy = <<>>
    /\ free = <<>>
    /\ win = <<0, 0>>
    /\ events = <<>>
    /\ target = NoEvent
    /\ writes = <<>>
    /\ result = Outcome("none", NoSlot, NoEvent)
    /\ cal = [u \in UserSet |-> <<>>]

\* one call of parse_user_query: it returns its dictionary or it raises
ParseUserQuery ==
    /\ pc = "idle"
    /\ pc' = "done"
    /\ op' = "parse_user_query"
    /\ result' = IF QueryRaises(req.text)
                 THEN [kind |-> "raised", parsed |-> Defaults]
                 ELSE [kind |-> "returned", parsed |-> parse_user_query(req.text)]
    /\ UNCHANGED <<now, cal, req, faults, busy, free, win, events, target, writes>>

NextParse == ParseUserQuery

SpecParse == InitParse /\ [][NextParse]_vars

-----------------------------------------------------------------------------
(* Properties of the free/busy sweep, checked under SpecSweep *)

SweepOps == {"find_conflict_free_slot", "find_common_free_slot"}

SweepRan == op \in SweepOps /\ result.kind # "raised"

\* the minimum duration the handler that ran asked for
MinDuration == IF op = "find_common_free_slot" THEN DURATION_MINUTES * 60
               ELSE MIN_FREE_SECONDS

Disjoint(slot, b) == slot[2] <= b[1] \/ b[2] <= slot[1]

Nested(outer, inner) == outer[1] <= inner[1] /\ inner[2] < outer[2]

\* C1: no free slot the sweep emits overlaps a busy interval fed to the sweep:
\* for every emitted slot (a,b) and every busy (s,e), b <= s or e <= a.
C1_FreeSlotsAvoidBusy ==
    SweepRan =>
        \A i \in 1..Len(free) : \A j \in 1..Len(busy) : Disjoint(free[i], busy[j])

\* a sweep over a busy interval nested in an earlier one that emitted a slot
\* starting where the outer interval ends
C1_Witness ==
    /\ SweepRan
    /\ Len(busy) >= 2
    /\ Nested(busy[1], busy[2])
    /\ free # <<>>
    /\ free[1][1] = busy[1][2]

\* C2: every emitted slot, the trailing one included, lasts at least the
\* minimum duration; an empty result is reported as the no-slot message and a
\* non-empty one as its first slot.
C2_SlotsMeetMinimum ==
    SweepRan =>
        /\ \A i \in 1..Len(free) : free[i][2] - free[i][1] >= MinDuration
        /\ free = <<>> =>
              result.kind = (IF op = "find_common_free_slot" THEN "no_common_slot"
                             ELSE "no_free_slot")
        /\ free # <<>> => result.kind = "suggested" /\ result.slot = free[1]

\* a sweep that emitted a leading slot of exactly the minimum duration and a
\* trailing slot that ends at the window end
C2_Witness ==
    /\ SweepRan
    /\ Len(free) >= 2
    /\ free[1][2] - free[1][1] = MinDuration
    /\ free[Len(free)][2] = win[2]
    /\ busy # <<>>

NonOverlapping(bs) ==
    \A i \in 1..Len(bs) : \A j \in (i + 1)..Len(bs) : bs[i][2] <= bs[j][1]

Covers(x, t) == x[1] <= t /\ t < x[2]

InBusy(t) == \E j \in 1..Len(busy) : Covers(busy[j], t)

InFree(t) == \E i \in 1..Len(free) : Covers(free[i], t)

\* the instants of the window at which coverage can change: the window start
\* and every interval end point inside the window
Breaks ==
    {t \in {win[1]} \cup {busy[j][1] : j \in 1..Len(busy)}
             \cup {busy[j][2] : j \in 1..Len(busy)}
             \cup {free[i][1] : i \in 1..Len(free)}
             \cup {free[i][2] : i \in 1..Len(free)} :
        win[1] <= t /\ t < win[2]}

\* the maximal stretch of the window around t that no busy interval touches
StretchStart(t) ==
    SetMax({win[1]} \cup {busy[j][2] : j \in {k \in 1..Len(busy) : busy[k][2] <= t}})

StretchEnd(t) ==
    SetMin({win[2]} \cup {busy[j][1] : j \in {k \in 1..Len(busy) : busy[k][1] > t}})

SlotsInsideWindow ==
    \A i \in 1..Len(free) : win[1] <= free[i][1] /\ free[i][2] <= win[2]

\* C3 as stated: for sorted, non-overlapping busy sets the free slots together
\* with the busy intervals cover every instant of the window, and no slot is
\* shorter than the minimum duration.
C3_AsStated ==
    (SweepRan /\ NonOverlapping(busy)) =>
        /\ \A t \in Breaks : InBusy(t) \/ InFree(t)
        /\ SlotsInsideWindow
        /\ \A i \in 1..Len(free) : free[i][2] - free[i][1] >= MinDuration

\* C3 amended: for sorted, non-overlapping busy sets the free slots are exactly
\* the busy-free stretches of the window that last at least the minimum
\* duration: an instant of the window is in a free slot iff it is in no busy
\* interval and the busy-free stretch around it is at least that long; so the
\* slots, the busy intervals and the stretches shorter than the minimum
\* together cover the window, and no slot is shorter than the minimum.
C3_SlotsAreLongStretches ==
    (SweepRan /\ NonOverlapping(busy)) =>
        /\ \A t \in Breaks :
              InFree(t) <=> (~InBusy(t) /\ StretchEnd(t) - StretchStart(t) >= MinDuration)
        /\ SlotsInsideWindow
        /\ \A i \in 1..Len(free) : free[i][2] - free[i][1] >= MinDuration

\* a sweep over two separate busy intervals with a stretch between them that
\* is too short to be a slot, and a slot elsewhere
C3_Witness ==
    /\ SweepRan
    /\ Len(busy) >= 2
    /\ NonOverlapping(busy)
    /\ free # <<>>
    /\ \E t \in Breaks : ~InBusy(t) /\ ~InFree(t)

ReadOps == SweepOps \cup {"get_multi_user_events"}

\* the busy list of the users whose list call did not fail
ExpectedBusy == SortBusy(CollectBusy(faults.list, win[1], win[2]))

\* C4: a failure of one user's list call never aborts a multi-user read: no
\* exception reaches the caller, the failing user's events are omitted and
\* the other user's events are processed into the result.
C4_ListFailureNeverAborts ==
    (op \in ReadOps /\ Cardinality(faults.list) = 1) =>
        /\ result.kind # "raised"
        /\ op \in SweepOps => busy = ExpectedBusy
        /\ op = "get_multi_user_events" =>
              \A u \in UserSet \ faults.list : \A i \in 1..Len(ListUpcoming(u)) :
                  \E k \in 1..Len(events) :
                      events[k].user = u /\ events[k].ev = ListUpcoming(u)[i]

\* the pointer of the sweep that ran: SweepPointers[k + 1] is its value after
\* the k-th busy interval, SweepPointers[1] the window start
SweepPointers == Pointers(busy, win[1])

\* C20: after each busy interval the pointer is the later of its previous
\* value and the end of the interval, so it never moves back and never lies
\* before the window start; every slot starts at a value of the pointer, and
\* no slot starts inside an interval that was swept before it was emitted,
\* however the intervals nest or overlap
C20_PointerNeverRegresses ==
    SweepRan =>
        /\ \A k \in 1..Len(busy) :
              /\ SweepPointers[k + 1] = Max(SweepPointers[k], busy[k][2])
              /\ SweepPointers[k + 1] >= SweepPointers[k]
              /\ SweepPointers[k + 1] >= win[1]
        /\ \A i \in 1..Len(free) :
              /\ \E k \in 1..(Len(busy) + 1) : free[i][1] = SweepPointers[k]
              /\ \A j \in 1..Len(busy) :
                    busy[j][1] <= free[i][1] => busy[j][2] <= free[i][1]

\* a sweep in which an interval ends before the pointer has reached, the
\* pointer stays where it is, and a slot is emitted from it afterwards
C20_Witness ==
    /\ SweepRan
    /\ \E k \in 2..Len(busy) :
          /\ busy[k][2] < SweepPointers[k]
          /\ SweepPointers[k + 1] = SweepPointers[k]
          /\ \E i \in 1..Len(free) : free[i][1] = SweepPointers[k + 1]

-----------------------------------------------------------------------------
(* Properties of the scheduling actions, under Spec *)

Successes == {"created", "canceled", "rescheduled"}

\* the messages returned before any write call is reached
PreWriteFailures ==
    {"no_time", "no_attendees", "bad_time", "no_attendees_or_id", "no_match",
     "no_new_time", "no_free_slots", "bad_new_time", "bad_old_time",
     "first_needs_date"}

WriteCallOf ==
    [create_meeting |-> "insert", cancel_meeting |-> "delete",
     reschedule_meeting |-> "update"]

Placed(c) == UNION {{<<u, e>> : e \in Range(c[u])} : u \in UserSet}

\* the events that differ between two states of the calendars
Touched(c, d) ==
    {p[2].id : p \in (Placed(c) \ Placed(d)) \cup (Placed(d) \ Placed(c))}

\* C5: an invocation of create_meeting, cancel_meeting or reschedule_meeting
\* issues at most one write call and changes at most one event; it issues
\* exactly one, of its own kind and carried out, when it reports success, and
\* none when it returns a message produced before the write; a failure leaves
\* the calendars as they were.
C5_AtMostOneWrite ==
    [][pc = "called" =>
          /\ Len(writes') <= 1
          /\ Cardinality(Touched(cal, cal')) <= 1
          /\ result'.kind \in Successes =>
                /\ Len(writes') = 1
                /\ writes'[1].ok
                /\ writes'[1].call = WriteCallOf[req.tool]
          /\ result'.kind \in PreWriteFailures => writes' = <<>>
          /\ result'.kind \notin Successes => cal' = cal]_vars

C5_Witness ==
    /\ pc = "done"
    /\ op = "reschedule_meeting"
    /\ result.kind = "rescheduled"
    /\ Len(writes) = 1
    /\ writes[1].user = Users[2]
    /\ Len(events) >= 2

\* the request reached the scan of the candidates
Scanned ==
    /\ pc = "done"
    /\ op = "reschedule_meeting"
    /\ req.eventId = NoEvent
    /\ result.kind \in {"rescheduled", "reschedule_failed", "no_match"}

\* the rule as the claim states it, on the summary the request carries
StatedPrimary(ev) ==
    /\ IncludesAll(ev, req.attendees)
    /\ req.summary = <<>> \/ Lower(ev.summary) = Lower(req.summary)

\* the scanned events that satisfy the stated rule, and those that only
\* mention a requested attendee's address in their summary
StatedHits == {i \in 1..Len(events) : StatedPrimary(events[i].ev)}

MentionHits == {i \in 1..Len(events) : FallbackMatch(events[i].ev, req.attendees)}

\* C6: without an event id and without the first flag, the target is the first
\* scanned event that includes every requested attendee and whose summary
\* equals the requested one when one was requested; only when no scanned event
\* satisfies that rule is the target the first event whose summary contains a
\* requested attendee's address.
C6_PrimaryBeforeFallback ==
    (Scanned /\ ~ParseResult(req).is_first) =>
        IF StatedHits # {} THEN target = events[SetMin(StatedHits)].ev.id
        ELSE IF MentionHits # {} THEN target = events[SetMin(MentionHits)].ev.id
        ELSE target = NoEvent

\* the matching rule the handler of the request applies to a candidate
MatchesRequest(ev) ==
    IF req.tool = "cancel_meeting"
    THEN CancelMatches(ev, req.attendees, DayFilter(req))
    ELSE IF ParseResult(req).is_first
    THEN DayOf(ev.start) = DayOf(ParseTime(req.old_time, now))
    ELSE \/ PrimaryMatch(ev, req.attendees, ParseResult(req).summary)
         \/ FallbackMatch(ev, req.attendees)

\* C7: when several candidates match a cancel or reschedule request, the
\* event acted on starts no later than any other candidate that matches.
C7_EarliestQualifierActedOn ==
    (/\ pc = "done"
     /\ op \in {"cancel_meeting", "reschedule_meeting"}
     /\ req.eventId = NoEvent
     /\ target # NoEvent) =>
        \A i, j \in 1..Len(events) :
            (events[i].ev.id = target /\ MatchesRequest(events[j].ev)) =>
                events[i].ev.start <= events[j].ev.start

\* C8: a reschedule of the first meeting of a day updates the event that
\* starts earliest on that day over both users' calendars.
C8_FirstMeetingIsEarliest ==
    (/\ Scanned
     /\ ParseResult(req).is_first
     /\ faults.list = {}
     /\ result.kind = "rescheduled") =>
        LET day == DayOf(ParseTime(req.old_time, now))
            onDay == {i \in 1..Len(events) : DayOf(events[i].ev.start) = day}
        IN  \E i \in onDay :
                /\ events[i].ev.id = target
                /\ \A j \in onDay : events[i].ev.start <= events[j].ev.start

\* C9: a cancel request without an event id whose attendees resolve to a
\* non-empty list deletes, on its owner's calendar, the first listed event
\* that includes every requested attendee and passes the weekday filter, and
\* reports that event as canceled.
C9_CancelByAttendeesDeletes ==
    [][(/\ pc = "called"
        /\ req.tool = "cancel_meeting"
        /\ req.eventId = NoEvent
        /\ req.attendees # <<>>
        /\ pc' = "done"
        /\ faults' = NoFaults) =>
           LET evs == Candidates({}, now, WindowEnd(now))
               k == CancelTarget(evs, req.attendees, DayFilter(req))
           IN  k # 0 =>
                 /\ result'.kind = "canceled"
                 /\ result'.id = evs[k].ev.id
                 /\ cal' = [cal EXCEPT ![evs[k].user] = Without(@, evs[k].ev.id)]]_vars

\* the request gets as far as looking for its event among the candidates
ReachesMatching ==
    /\ req.eventId = NoEvent
    /\ req.tool = "cancel_meeting" => req.attendees # <<>>
    /\ req.tool = "reschedule_meeting" =>
          /\ req.time.given /\ Parsable(req.time)
          /\ ParseResult(req).is_first => req.old_time.given /\ Parsable(req.old_time)

\* C10: when no candidate matches a cancel or reschedule request, nothing is
\* written and the message says that no matching event was found; an event
\* that is acted on satisfies the matching rule of the request.
C10_NoMatchNoWrite ==
    [][(/\ pc = "called"
        /\ req.tool \in {"cancel_meeting", "reschedule_meeting"}
        /\ ReachesMatching
        /\ pc' = "done") =>
           LET evs == IF req.tool = "cancel_meeting"
                      THEN Candidates(faults'.list, now, WindowEnd(now))
                      ELSE events'
               matching == {i \in 1..Len(evs) : MatchesRequest(evs[i].ev)}
           IN  /\ matching = {} =>
                     /\ result'.kind = "no_match"
                     /\ writes' = <<>>
                     /\ cal' = cal
               /\ target' # NoEvent =>
                     \E i \in matching : evs[i].ev.id = target']_vars

\* C11: cancel by id, when user1's calendar holds no event of that id, issues
\* no delete, changes nothing, does not go on to match by attendees, and
\* returns the cancel-by-id failure message (neither the parse failure
\* message nor a success).
C11_CancelByIdNotFound ==
    [][(/\ pc = "called"
        /\ req.tool = "cancel_meeting"
        /\ req.eventId # NoEvent
        /\ ~Holds(Users[1], req.eventId)
        /\ pc' = "done"
        /\ ~faults'.service) =>
           /\ result'.kind = "cancel_by_id_failed"
           /\ result'.kind \notin Successes \cup {"no_attendees_or_id"}
           /\ writes' = <<>>
           /\ cal' = cal
           /\ events' = <<>>
           /\ target' = NoEvent]_vars

\* the id is not on user1's calendar, while the request names attendees and
\* user2's calendar holds an event of that id
C11_Witness ==
    /\ pc = "done"
    /\ op = "cancel_meeting"
    /\ req.eventId # NoEvent
    /\ req.attendees # <<>>
    /\ ~Holds(Users[1], req.eventId)
    /\ Holds(Users[2], req.eventId)
    /\ result.kind = "cancel_by_id_failed"
    /\ writes = <<>>

ToolOps == {"create_meeting", "cancel_meeting", "reschedule_meeting"}

\* the messages a tool returns
Messages ==
    Successes \cup PreWriteFailures
        \cup {"insert_failed", "cancel_by_id_failed", "reschedule_failed",
              "unexpected_error"}

\* C12: create_meeting, cancel_meeting and reschedule_meeting never raise:
\* whatever fails inside them (the parse, a lookup, a list or write call,
\* get_user_service), the caller gets one of the tool's messages.
C12_ToolsNeverRaise ==
    pc = "done" /\ op \in ToolOps =>
        /\ result.kind # "raised"
        /\ result.kind \in Messages

\* get_user_service failed inside reschedule_meeting
C12_Witness ==
    /\ pc = "done"
    /\ op = "reschedule_meeting"
    /\ faults.service
    /\ result.kind = "unexpected_error"

-----------------------------------------------------------------------------
(* The weekday correction of create_meeting on its own: the time text names *)
(* a day and an hour, the query names up to two weekdays                    *)

InitAdjust ==
    /\ now = 0
    /\ pc = "idle"
    /\ \E d \in 0..6, h \in {0, 17, 23} :
       \E named \in {x \in SUBSET (0..6) : Cardinality(x) <= 2} :
          req = [Matched("create_meeting") EXCEPT
                   !.time = [given |-> TRUE, hasDate |-> TRUE, day |-> d,
                             hasHour |-> TRUE, hour |-> h],
                   !.attendees = <<ADDR_A>>,
                   !.days = named]
    /\ faults = NoFaults
    /\ op = "none"
    /\ busy = <<>>
    /\ free = <<>>
    /\ win = <<0, 0>>
    /\ events = <<>>
    /\ target = NoEvent
    /\ writes = <<>>
    /\ result = Outcome("none", NoSlot, NoEvent)
    /\ cal = [u \in UserSet |-> <<>>]

\* the parse of the time text and the loop over day_names; the slot of the
\* result holds the parsed start and the corrected start
AdjustStart ==
    /\ pc = "idle"
    /\ pc' = "done"
    /\ op' = "adjust_weekday"
    /\ result' = Outcome("adjusted", <<ParsedStart(req), CorrectedStart(req)>>, NoEvent)
    /\ UNCHANGED <<now, cal, req, faults, busy, free, win, events, target, writes>>

NextAdjust == AdjustStart

SpecAdjust == InitAdjust /\ [][NextAdjust]_vars

\* the request holds the words "whenever I'm free" and names no new time
WheneverFreeRequest ==
    /\ pc = "done"
    /\ op = "reschedule_meeting"
    /\ IsSubstring(WHENEVER_FREE, req.text)
    /\ ~req.time.given
    /\ ~faults.service

\* C19: a reschedule request for "whenever I'm free" without a new time is
\* answered from the free slots of the week: it fails for want of a free
\* slot or it goes on with the start of the first one, and it is never
\* refused for naming no new time
C19_WheneverFreeUsesEngine ==
    WheneverFreeRequest =>
        /\ result.kind \notin {"no_new_time", "unexpected_error"}
        /\ result.kind = "no_free_slots" \/ free # <<>>

\* the reschedule request names no event: no id, no "first meeting", and an
\* attendee text that resolved to no attendee
IdentifiesNone ==
    /\ pc = "done"
    /\ op = "reschedule_meeting"
    /\ req.eventId = NoEvent
    /\ ~ParseRaises(req)
    /\ ~ParseResult(req).is_first
    /\ ParseResult(req).attendees = <<>>

\* C21: a reschedule request that names no event issues no update and
\* picks no event
C21_NoAttendeesNoUpdate ==
    IdentifiesNone => writes = <<>> /\ target = NoEvent

-----------------------------------------------------------------------------
(* Properties of parse_user_query, checked under SpecParse *)

Parsed == pc = "done" /\ op = "parse_user_query"

QueryWords == Words(req.text)

\* the pattern the query was parsed by, 0 for none
ParsedBy == MatchedPattern(QueryWords)

\* the phrasing rules other than the catch-all, which is the fourth
SpecificRules == {1, 2, 3, 5}

\* C13: a query that one of the specific phrasing rules accepts is never
\* parsed by the generic "<summary> with <attendees> at <time>" rule
C13_SpecificBeforeCatchAll ==
    Parsed /\ ParsedBy = 4 => \A i \in SpecificRules : ~Patterns(QueryWords)[i].ok

\* C14: a query that no pattern matches is parsed without error into the
\* empty Intent (no time, no old time, no attendees, not first, summary
\* "Meeting"), and so is, as to its attendees, a query matched by a pattern
\* that has no attendees group
C14_NoMatchReturnsDefaults ==
    Parsed =>
        /\ ParsedBy = 0 => result.kind = "returned" /\ result.parsed = Defaults
        /\ ParsedBy = 5 => result.kind = "returned" /\ result.parsed.attendees = <<>>

\* the query holds "first" as a word of its own
HasWordFirst == \E i \in 1..Len(QueryWords) : Lower(QueryWords[i]) = Literal.first

\* C15: a query that holds the word "first" is parsed into an Intent whose
\* is_first is true, whatever pattern matched; an Intent parsed from a query
\* without that word has is_first false
C15_FirstWordSetsIsFirst ==
    Parsed =>
        /\ HasWordFirst => result.kind = "returned" /\ result.parsed.is_first
        /\ ~HasWordFirst /\ result.kind = "returned" => ~result.parsed.is_first

\* the time phrases of one or two words
TimePhrases == UNION {[1..n -> {Word.pm5, Word.tomorrow}] : n \in 1..2}

\* "create a meeting with <address> at <time phrase>"
CreateForm(phrase) ==
    Join(<<Literal.create, Literal.a, Literal.meeting, Literal.with, Word.address, Literal.at>> \o phrase)

\* C16: "create a meeting with <address> at <time phrase>" is parsed into
\* that address as the only attendee, the whole time phrase as the time and
\* the default summary
C16_CreateKeepsTimePhrase ==
    Parsed =>
        \A phrase \in TimePhrases :
            req.text = CreateForm(phrase) =>
                /\ result.kind = "returned"
                /\ result.parsed.attendees = <<Word.address>>
                /\ result.parsed.time = Join(phrase)
                /\ result.parsed.summary = DEFAULT_SUMMARY

\* the attendee text of the query, as the pattern that matched captured it
RawAttendees == Words(Patterns(QueryWords)[ParsedBy].attendees)

HasAddress(ws) == \E i \in 1..Len(ws) : IsEmail(ws[i])

HasKnownName(ws) == \E i \in 1..Len(ws) : Lower(ws[i]) \in DOMAIN email_mapping

\* the attendee text mixes a known name and an address
MixedAttendees ==
    Parsed /\ result.kind = "returned" /\ HasAddress(RawAttendees) /\ HasKnownName(RawAttendees)

\* C17: attendee text that holds an address resolves to the addresses in it,
\* verbatim and in their order, and to nothing else: a known name next to an
\* address is dropped
C17_AddressesOnly ==
    Parsed /\ result.kind = "returned" /\ HasAddress(RawAttendees) =>
        result.parsed.attendees = SelectSeq(RawAttendees, IsEmail)

\* C17 as stated: a known name and an address resolve to two attendees, the
\* address the table gives for the name and the address itself
C17_AsStated ==
    MixedAttendees /\ RawAttendees = <<Word.akash, Literal.and, Word.address>> =>
        /\ Len(result.parsed.attendees) = 2
        /\ \E i \in 1..2 : result.parsed.attendees[i] = email_mapping[Lower(Word.akash)]
        /\ \E i \in 1..2 : result.parsed.attendees[i] = Word.address

C17_Witness ==
    /\ MixedAttendees
    /\ RawAttendees = <<Word.akash, Literal.and, Word.address>>
    /\ result.parsed.attendees = <<Word.address>>

-----------------------------------------------------------------------------
(* Properties of the weekday correction, checked under SpecAdjust *)

Adjusted == pc = "done" /\ op = "adjust_weekday"

\* C18: for every weekday the query names that is not the weekday of the
\* parsed start, the corrected start is the next occurrence of that weekday:
\* a whole 1 to 6 days after the parsed start (so the same time of day) and
\* on the named weekday
C18_NextOccurrence ==
    Adjusted =>
        \A i \in req.days :
            Weekday(result.slot[1]) # i =>
                /\ result.slot[2] - result.slot[1] \in {k * SecondsPerDay : k \in 1..6}
                /\ Weekday(result.slot[2]) = i

====
